---- MODULE Spec2Model ----
(***************************************************************************)
(* A model of dspyce's entity classes: DSpaceObject (metadata operations), *)
(* Item (collections, relations, entity type), Bundle / Bitstream          *)
(* (containment, back-reference, description line, saving) and            *)
(* IIIFBitstream (image information).                                      *)
(*                                                                         *)
(* Every method is a pure operator that returns the exception it raises    *)
(* ("none" when it returns normally) together with the fields it leaves    *)
(* behind; the action of the same method applies the operator to the       *)
(* object's state and records the call in `op` and its outcome in `err`.   *)
(* A call that raises leaves the object as the code leaves it at the       *)
(* raise.                                                                  *)
(***************************************************************************)
EXTENDS Integers, Sequences, FiniteSets, TLC

VARIABLES metadata, collections, relations, bitstreams, bundles, op, err,
          objects, permissions, bit_primary, image, reduced, files

vars == <<metadata, collections, relations, bitstreams, bundles, op, err,
          objects, permissions, bit_primary, image, reduced, files>>

----------------------------------------------------------------------------
(* Bounds and input sets *)

\* most metadata values one object holds, over all its fields
MaxValues == 3

Tags == {"dc.title", "dspace.entity.type"}
ENTITY_TAG == "dspace.entity.type"
Values == {"", "Person"}
Languages == {"None"}
\* Python's None where a str is expected
NoneVal == "None"

Min(a, b) == IF a < b THEN a ELSE b
Max(a, b) == IF a > b THEN a ELSE b

----------------------------------------------------------------------------
(* Python list primitives used by the methods *)

\* the position a slice bound k denotes in a list of length n
PySliceBound(k, n) == IF k < 0 THEN Max(k + n, 0) ELSE Min(k, n)

\* s[:k]
PySliceTo(s, k) == SubSeq(s, 1, PySliceBound(k, Len(s)))

\* s[k:]
PySliceFrom(s, k) == SubSeq(s, PySliceBound(k, Len(s)) + 1, Len(s))

\* list.pop(i): IndexError unless -len <= i < len
list_pop(s, i) ==
    LET n == Len(s)
        idx == IF i < 0 THEN i + n ELSE i
    IN  IF i >= n \/ i < -n
        THEN [err |-> "IndexError", value |-> NoneVal, rest |-> s]
        ELSE [err |-> "none", value |-> s[idx + 1],
              rest |-> SubSeq(s, 1, idx) \o SubSeq(s, idx + 2, n)]

----------------------------------------------------------------------------
(* MetaData: the mapping from field identifier to its list of values.     *)
(* A store is a function whose domain is the set of keys present.         *)

MetaDataValue(value, language) == [value |-> value, language |-> language]

EmptyMetaData == [t \in {} |-> <<>>]

\* MetaData.keys()
MetaData_keys(m) == DOMAIN m

\* MetaData.get(tag): None when the key is missing
MetaData_get(m, tag) ==
    IF tag \in DOMAIN m THEN [isNone |-> FALSE, val |-> m[tag]]
                        ELSE [isNone |-> TRUE, val |-> <<>>]

\* metadata[tag] = MetaDataValue: appends to the field, creating it if missing
MetaData_setitem_value(m, tag, v) ==
    [t \in (DOMAIN m) \cup {tag} |->
        IF t = tag THEN (IF tag \in DOMAIN m THEN Append(m[tag], v) ELSE <<v>>)
                   ELSE m[t]]

\* metadata[tag] = list: the list becomes the field's value list
MetaData_setitem_list(m, tag, l) ==
    [t \in (DOMAIN m) \cup {tag} |-> IF t = tag THEN l ELSE m[t]]

\* MetaData.pop(tag): KeyError when the key is missing
MetaData_pop(m, tag) ==
    IF tag \in DOMAIN m
    THEN [err |-> "none", metadata |-> [t \in (DOMAIN m) \ {tag} |-> m[t]]]
    ELSE [err |-> "KeyError", metadata |-> m]

\* metadata[tag] read: KeyError when the key is missing
MetaData_getitem(m, tag) ==
    IF tag \in DOMAIN m THEN [err |-> "none", val |-> m[tag]]
                        ELSE [err |-> "KeyError", val |-> <<>>]

----------------------------------------------------------------------------
(* DSpaceObject *)

has_metadata(m, tag) == tag \in MetaData_keys(m)

get_metadata(m, tag) ==
    LET md == MetaData_get(m, tag) IN IF md.isNone THEN <<>> ELSE md.val

\* the list of raw values; None (isNone) when the field has no value
get_metadata_values(m, tag) ==
    LET l == get_metadata(m, tag)
    IN  IF Len(l) > 0 THEN [isNone |-> FALSE, val |-> [i \in 1..Len(l) |-> l[i].value]]
                      ELSE [isNone |-> TRUE, val |-> <<>>]

add_metadata(m, tag, value, language) ==
    [err |-> "none",
     metadata |-> MetaData_setitem_value(m, tag, MetaDataValue(value, language))]

remove_metadata(m, tag, value) ==
    IF value = NoneVal
    THEN MetaData_pop(m, tag)
    ELSE LET cur == MetaData_getitem(m, tag)
         IN  IF cur.err # "none"
             THEN [err |-> cur.err, metadata |-> m]
             ELSE [err |-> "none",
                   metadata |-> MetaData_setitem_list(m, tag,
                                   SelectSeq(cur.val, LAMBDA x : x.value # value))]

replace_metadata(m, tag, value, language) ==
    LET r == remove_metadata(m, tag, NoneVal)
    IN  IF r.err # "none" THEN r ELSE add_metadata(r.metadata, tag, value, language)

\* a move that always puts the value at the end
move_insert_append(rest, value, to_position) == Append(rest, value)

\* md[:to_position] + [value] + md[to_position:] on the list left by the pop
move_insert(rest, value, to_position) ==
    PySliceTo(rest, to_position) \o <<value>> \o PySliceFrom(rest, to_position)

move_metadata(m, tag, from_position, to_position) ==
    LET md == get_metadata(m, tag)
        n == Len(md)
    IN  IF n = 0 \/ from_position >= n
        THEN [err |-> "KeyError", metadata |-> m]
        ELSE IF to_position >= n \/ to_position <= n * (-1)
        THEN [err |-> "IndexError", metadata |-> m]
        ELSE LET p == list_pop(md, from_position)
             IN  IF p.err # "none"
                 THEN [err |-> p.err, metadata |-> m]
                 ELSE [err |-> "none",
                       metadata |-> MetaData_setitem_list(m, tag,
                                       move_insert(p.rest, p.value, to_position))]

----------------------------------------------------------------------------
(* Initial state: a freshly constructed object *)

(* Item *)

\* longest collections list
MaxCollections == 3

Collections == {"c1", "c2"}

\* what a caller can pass as Item(collections=...): nothing, one Collection,
\* or a list of Collections
CollectionArgs ==
    {[kind |-> "None", val |-> <<>>]}
    \cup {[kind |-> "Collection", val |-> <<c>>] : c \in Collections}
    \cup {[kind |-> "list", val |-> l] : l \in {<<>>} \cup {<<c>> : c \in Collections}}

\* `type[collections] is Collection`: subscripting the builtin `type` builds a
\* types.GenericAlias, which is never the class Collection
type_subscript_is_Collection(arg) == FALSE

\* Item.__init__: the collections list the constructor leaves
Item_init(arg) ==
    IF arg.kind = "list" THEN arg.val
    ELSE IF type_subscript_is_Collection(arg) THEN arg.val
    ELSE <<>>

\* names a lookup through super() can find on DSpaceObject: what the class body
\* binds, that is its methods. `metadata`, `uuid`, ... are only annotated there
\* and assigned on the instance by __init__.
DSpaceObjectClassAttributes ==
    {"__init__", "add_metadata", "remove_metadata", "replace_metadata",
     "move_metadata", "get_dspace_object_type", "get_identifier", "__eq__",
     "__str__", "to_dict", "has_metadata", "get_metadata", "get_metadata_values",
     "get_first_metadata", "get_first_metadata_value", "add_statistic_report",
     "has_statistics"}

\* super().<name> inside a method of Item
super_getattr(name) ==
    IF name \in DSpaceObjectClassAttributes THEN "none" ELSE "AttributeError"

is_entity(m) ==
    IF super_getattr("metadata") # "none"
    THEN [err |-> super_getattr("metadata"), result |-> FALSE]
    ELSE [err |-> "none", result |-> ~MetaData_get(m, ENTITY_TAG).isNone]

\* an add_collection that ignores `primary`
add_collection_append(cs, c, primary) == Append(cs, c)

add_collection(cs, c, primary) ==
    IF primary THEN <<c>> \o cs ELSE Append(cs, c)

Relation(relation_type, identifier) ==
    [relation_type |-> relation_type, identifier |-> identifier]

\* Item never assigns self.relations: the attribute is missing until set
add_relation(m, rel, relation_type, identifier) ==
    LET e == is_entity(m)
    IN  IF e.err # "none" THEN [err |-> e.err, relations |-> rel]
        ELSE IF ~e.result THEN [err |-> "TypeError", relations |-> rel]
        ELSE IF ~rel.isSet THEN [err |-> "AttributeError", relations |-> rel]
        ELSE [err |-> "none",
              relations |-> [isSet |-> TRUE,
                             val |-> Append(rel.val, Relation(relation_type, identifier))]]

\* a positional call of DSpaceObject.add_metadata(self, tag, value, language=None)
call_add_metadata(m, args) ==
    IF Len(args) < 2 \/ Len(args) > 3
    THEN [err |-> "TypeError", metadata |-> m]
    ELSE add_metadata(m, args[1], args[2], IF Len(args) = 3 THEN args[3] ELSE NoneVal)

enable_entity(m, entity_type) ==
    IF super_getattr("add_metadata") # "none"
    THEN [err |-> super_getattr("add_metadata"), metadata |-> m]
    ELSE call_add_metadata(m, <<"dspace", "entity", "type", entity_type>>)

----------------------------------------------------------------------------
(* Bitstream and Bundle *)

\* longest bitstream list of one bundle
MaxBits == 2

\* the Bitstream objects, in the order they are created
BitOrder == <<"b1", "b2">>
BitIds == {BitOrder[i] : i \in 1..Len(BitOrder)}
BundleIds == {"ORIGINAL", "THUMBNAIL"}
FileNames == {"scan.jpg", "text.pdf"}
\* a path is the sequence of its characters
Paths == {<<>>, <<"p">>, <<"p", "/">>}
Uuids == {"u1", "u2"}

\* self.path += '/' if len(self.path) > 0 and self.path[-1] != '/' else ''
normalise_path(path) ==
    IF Len(path) > 0 /\ path[Len(path)] # "/" THEN Append(path, "/") ELSE path

\* Bitstream.__init__: the fields of the new object
Bitstream_init(name, path, bundle, uuid) ==
    [file_name |-> name, path |-> normalise_path(path), bundle |-> bundle,
     uuid |-> uuid]

\* a Bitstream.__eq__ that compares the uuids even when one is None
Bitstream_eq_strict(self, other) ==
    /\ self.file_name = other.file_name
    /\ self.path = other.path
    /\ self.uuid = other.uuid

\* Bitstream.__eq__ (both operands are Bitstreams)
Bitstream_eq(self, other) ==
    /\ self.file_name = other.file_name
    /\ self.path = other.path
    /\ ((self.uuid = NoneVal \/ other.uuid = NoneVal) \/ self.uuid = other.uuid)

\* list.remove(x) on a list of objects: drops the first item that is x or
\* equals x, ValueError when there is none. bs maps an object to its fields.
list_remove(bs, l, x) ==
    LET hits == {i \in 1..Len(l) : l[i] = x \/ Bitstream_eq(bs[l[i]], bs[x])}
    IN  IF hits = {}
        THEN [err |-> "ValueError", list |-> l]
        ELSE LET i == CHOOSE k \in hits : \A j \in hits : k <= j
             IN  [err |-> "none",
                  list |-> SubSeq(l, 1, i - 1) \o SubSeq(l, i + 1, Len(l))]

\* Bundle.add_bitstream: the back-reference, then the list
add_bitstream(bs, bn, bundle, bitstream) ==
    [bitstreams |-> [bs EXCEPT ![bitstream].bundle = bundle],
     bundles |-> [bn EXCEPT ![bundle] = Append(@, bitstream)]]

\* Bundle.remove_bitstream
remove_bitstream(bs, bn, bundle, bitstream) ==
    LET r == list_remove(bs, bn[bundle], bitstream)
    IN  [err |-> r.err, bundles |-> [bn EXCEPT ![bundle] = r.list]]

----------------------------------------------------------------------------
(* DSpaceObject identity and equality *)

ObjectUuids == {"", "u1", "u2"}
ObjectHandles == {"", "h1", "h2"}

\* DSpaceObject.__init__(uuid, handle): the identity fields
DSpaceObject_init(uuid, handle) == [uuid |-> uuid, handle |-> handle]

\* DSpaceObject.get_identifier: uuid, else handle, else None
get_identifier(self) ==
    IF self.uuid # "" THEN self.uuid
    ELSE IF self.handle # "" THEN self.handle
    ELSE NoneVal

\* DSpaceObject.__eq__
DSpaceObject_eq(self, other) ==
    IF self.uuid = "" /\ other.uuid = "" /\ self.handle = "" /\ other.handle = ""
    THEN [err |-> "ValueError", result |-> FALSE]
    ELSE [err |-> "none",
          result |-> IF self.uuid # "" THEN self.uuid = other.uuid
                                       ELSE self.handle = other.handle]

----------------------------------------------------------------------------
(* Bitstream: description, permissions and the description line *)

\* longest permission list of a bitstream
MaxPermissions == 2

DESCRIPTION_TAG == "dc.description"
PermissionTypes == {"r", "w", "x"}
Groups == {"Anonymous", "Staff"}

\* Bundle.name: a bundle is identified by its name here
Bundle_name(bundle) == bundle

\* the metadata Bitstream.__init__ leaves: dc.title = name unless name is ''
Bitstream_init_metadata(name) ==
    IF name # "" THEN add_metadata(EmptyMetaData, "dc.title", name, NoneVal).metadata
                 ELSE EmptyMetaData

\* DSpaceObject.get_first_metadata_value
get_first_metadata_value(m, tag) ==
    LET v == get_metadata_values(m, tag)
    IN  IF ~v.isNone THEN [isNone |-> FALSE, val |-> v.val[1]]
                     ELSE [isNone |-> TRUE, val |-> ""]

get_description(m) == get_first_metadata_value(m, DESCRIPTION_TAG)

add_description(m, description, language) ==
    add_metadata(m, DESCRIPTION_TAG, description, language)

add_permission(perms, rw, group_name) ==
    IF rw \notin {"r", "w"}
    THEN [err |-> "ValueError", permissions |-> perms]
    ELSE [err |-> "none",
          permissions |-> Append(perms, [type |-> rw, group |-> group_name])]

\* the permissions part of the line, one entry per permission in list order
RECURSIVE permissions_str(_)
permissions_str(perms) ==
    IF perms = <<>> THEN ""
    ELSE "\tpermissions:-" \o perms[1].type \o " '" \o perms[1].group \o "'"
         \o permissions_str(Tail(perms))

\* a __str__ that writes the primary flag before the permissions
Bitstream_str_primary_first(self, m, perms, prim) ==
    self.file_name
    \o (IF self.bundle # NoneVal THEN "\tbundle:" \o Bundle_name(self.bundle) ELSE "")
    \o (IF ~get_description(m).isNone
        THEN "\tdescription:" \o get_description(m).val ELSE "")
    \o (IF prim THEN "\tprimary:true" ELSE "")
    \o (IF Len(perms) > 0 THEN permissions_str(perms) ELSE "")

\* Bitstream.__str__
Bitstream_str(self, m, perms, prim) ==
    self.file_name
    \o (IF self.bundle # NoneVal THEN "\tbundle:" \o Bundle_name(self.bundle) ELSE "")
    \o (IF ~get_description(m).isNone
        THEN "\tdescription:" \o get_description(m).val ELSE "")
    \o (IF Len(perms) > 0 THEN permissions_str(perms) ELSE "")
    \o (IF prim THEN "\tprimary:true" ELSE "")

----------------------------------------------------------------------------
(* IIIFBitstream: IIIF information of an image bitstream *)

\* most add_iiif calls of one kind (recording, downscaling) on a bitstream
MaxIIIFCalls == 2

ImageSizes == {[width |-> 4000, height |-> 3000], [width |-> 800, height |-> 600]}
Widths == {0, 1000, 1500, 4000, 5000}
Labels == {"Page 1", "Cover"}
Tocs == {"", "Chapter 1"}
ContentTypes == {"images", "other"}

\* IIIFBitstream.__init__ of models.py: the fields Bitstream.__init__ sets,
\* and no field `iiif`
IIIFBitstream_init(name, path, bundle, uuid) == Bitstream_init(name, path, bundle, uuid)

\* IIIFBitstream.__init__ of IIIFBitstream.py: eight positional arguments are
\* handed to Bitstream.__init__, which takes seven
BitstreamInitArity == 7
IIIFBitstream_legacy_init(content_type) ==
    IF content_type # "images" THEN "TypeError"
    ELSE IF Len(<<"content_type", "name", "path", "content", "bundle", "uuid",
                  "primary", "show">>) > BitstreamInitArity
         THEN "TypeError"
         ELSE "none"

\* IIIFBitstream.add_iiif; `reduce` lists the factors handed to img.reduce
add_iiif(m, img, label, toc, w) ==
    LET width == img.width
        height == img.height
    IN  IF w # 0 /\ w < width
        THEN \* super().file = img.reduce(scale).tobytes(): the reduction is
             \* computed, the assignment through super() raises
             [err |-> "AttributeError", metadata |-> m, reduce |-> <<width \div w>>]
        ELSE LET m1 == add_metadata(m, "iiif.label", label, NoneVal).metadata
                 m2 == add_metadata(m1, "iiif.toc", toc, NoneVal).metadata
                 m3 == add_metadata(m2, "iiif.image.width", ToString(width),
                                    NoneVal).metadata
                 m4 == add_metadata(m3, "iiif.image.height", ToString(height),
                                    NoneVal).metadata
             IN  [err |-> "none", metadata |-> m4, reduce |-> <<>>]

get_iiif_label(m) == get_first_metadata_value(m, "iiif.label")
get_iiif_toc(m) == get_first_metadata_value(m, "iiif.toc")

\* str() of an Optional[str] inside an f-string
fstr(v) == IF v.isNone THEN "None" ELSE v.val

\* IIIFBitstream.__str__ of models.py; `self` holds the instance's fields
IIIFBitstream_str(self, m, perms, prim) ==
    LET export_name == Bitstream_str(self, m, perms, prim)
    IN  IF "iiif" \notin DOMAIN self
        THEN [err |-> "AttributeError", result |-> "", warned |-> FALSE]
        ELSE IF Cardinality(DOMAIN self.iiif) > 0
             THEN [err |-> "none",
                   result |-> export_name
                       \o "\tiiif-label:" \o fstr(get_iiif_label(m))
                       \o "\tiiif-toc:" \o fstr(get_iiif_toc(m))
                       \o "\tiiif-width:"
                       \o fstr(get_first_metadata_value(m, "iiif.image.width"))
                       \o "\tiiif-height:"
                       \o fstr(get_first_metadata_value(m, "iiif.image.height")),
                   warned |-> FALSE]
             ELSE [err |-> "none", result |-> export_name, warned |-> TRUE]

----------------------------------------------------------------------------
(* Bitstream.save_bitstream: writing the file into a directory *)

EmptyDir == [f \in {} |-> ""]
Contents == {"", "JFIF", "%PDF"}

\* what reading the bitstream's source gives: its bytes, or the error of
\* open() or requests.get()
FetchOutcomes ==
    [err : {"none"}, content : Contents]
    \cup [err : {"FileNotFoundError", "ConnectionError"}, content : {""}]

\* Bitstream.get_bitstream_file, given what the source gives
get_bitstream_file(fetch) == fetch

\* a save_bitstream that opens the destination before reading the source
save_bitstream_open_first(self, dir, fetch) ==
    IF self.file_name \in DOMAIN dir
    THEN [err |-> "FileExistsError", files |-> dir]
    ELSE LET file == get_bitstream_file(fetch)
         IN  [err |-> file.err,
              files |-> [f \in (DOMAIN dir) \cup {self.file_name} |->
                           IF f = self.file_name THEN file.content ELSE dir[f]]]

\* Bitstream.save_bitstream; dir maps the names in the directory to contents
save_bitstream(self, dir, fetch) ==
    IF self.file_name \in DOMAIN dir
    THEN [err |-> "FileExistsError", files |-> dir]
    ELSE LET file == get_bitstream_file(fetch)
         IN  IF file.err # "none"
             THEN [err |-> file.err, files |-> dir]
             ELSE [err |-> "none",
                   files |-> [f \in (DOMAIN dir) \cup {self.file_name} |->
                                IF f = self.file_name THEN file.content ELSE dir[f]]]

----------------------------------------------------------------------------
(* Initial states: freshly constructed objects *)

\* DSpaceObject(): an empty metadata store
InitMeta ==
    /\ metadata = EmptyMetaData
    /\ collections = <<>>
    /\ relations = [isSet |-> FALSE, val |-> <<>>]
    /\ bitstreams = <<>>
    /\ bundles = <<>>
    /\ op = [name |-> "DSpaceObject"]
    /\ err = "none"
    /\ objects = <<>>
    /\ permissions = <<>>
    /\ bit_primary = FALSE
    /\ image = [width |-> 0, height |-> 0]
    /\ reduced = <<>>
    /\ files = <<>>

\* Bundle(name) for each bundle name, no Bitstream constructed yet
InitBundle ==
    /\ metadata = EmptyMetaData
    /\ collections = <<>>
    /\ relations = [isSet |-> FALSE, val |-> <<>>]
    /\ bitstreams = [b \in {} |-> NoneVal]
    /\ bundles = [bundle \in BundleIds |-> <<>>]
    /\ op = [name |-> "Bundle"]
    /\ err = "none"
    /\ objects = <<>>
    /\ permissions = <<>>
    /\ bit_primary = FALSE
    /\ image = [width |-> 0, height |-> 0]
    /\ reduced = <<>>
    /\ files = <<>>

\* Item(collections=arg)
InitItem ==
    /\ metadata = EmptyMetaData
    /\ \E arg \in CollectionArgs :
          /\ collections = Item_init(arg)
          /\ op = [name |-> "Item", kind |-> arg.kind, given |-> arg.val]
    /\ relations = [isSet |-> FALSE, val |-> <<>>]
    /\ bitstreams = <<>>
    /\ bundles = <<>>
    /\ err = "none"
    /\ objects = <<>>
    /\ permissions = <<>>
    /\ bit_primary = FALSE
    /\ image = [width |-> 0, height |-> 0]
    /\ reduced = <<>>
    /\ files = <<>>

----------------------------------------------------------------------------
(* Metadata actions of a DSpaceObject *)

Others == <<collections, relations, bitstreams, bundles,
           objects, permissions, bit_primary, image, reduced, files>>

\* the number of values the store holds
NumValues(m) ==
    Cardinality(UNION {{<<t, i>> : i \in 1..Len(m[t])} : t \in DOMAIN m})

AddMetadataIn(tags) ==
    \E tag \in tags, value \in Values, language \in Languages :
        /\ NumValues(metadata) < MaxValues
        /\ LET r == add_metadata(metadata, tag, value, language)
           IN  /\ metadata' = r.metadata
               /\ err' = r.err
        /\ op' = [name |-> "add_metadata", tag |-> tag, value |-> value,
                  language |-> language]
        /\ UNCHANGED Others

RemoveMetadataIn(tags) ==
    \E tag \in tags, value \in Values \cup {NoneVal} :
        /\ LET r == remove_metadata(metadata, tag, value)
           IN  /\ metadata' = r.metadata
               /\ err' = r.err
        /\ op' = [name |-> "remove_metadata", tag |-> tag, value |-> value]
        /\ UNCHANGED Others

ReplaceMetadata ==
    \E tag \in Tags, value \in Values, language \in Languages :
        /\ LET r == replace_metadata(metadata, tag, value, language)
           IN  /\ metadata' = r.metadata
               /\ err' = r.err
        /\ op' = [name |-> "replace_metadata", tag |-> tag, value |-> value,
                  language |-> language]
        /\ UNCHANGED Others

MoveMetadata ==
    \E tag \in Tags :
      \E from_position \in (-1)..Len(get_metadata(metadata, tag)),
         to_position \in (-(Len(get_metadata(metadata, tag)) + 1))
                            ..Len(get_metadata(metadata, tag)) :
        /\ LET r == move_metadata(metadata, tag, from_position, to_position)
           IN  /\ metadata' = r.metadata
               /\ err' = r.err
        /\ op' = [name |-> "move_metadata", tag |-> tag,
                  from_position |-> from_position, to_position |-> to_position]
        /\ UNCHANGED Others

AddMetadata == AddMetadataIn(Tags)

RemoveMetadata == RemoveMetadataIn(Tags)

NextMeta == AddMetadata \/ RemoveMetadata \/ ReplaceMetadata \/ MoveMetadata

SpecMeta == InitMeta /\ [][NextMeta]_vars

----------------------------------------------------------------------------
(* Item actions *)

RelationTypes == {"isAuthorOf"}
Identifiers == {"id1"}

AddEntityType == AddMetadataIn({ENTITY_TAG})

RemoveEntityType == RemoveMetadataIn({ENTITY_TAG})

AddCollection ==
    \E c \in Collections, primary \in BOOLEAN :
        /\ Len(collections) < MaxCollections
        /\ collections' = add_collection(collections, c, primary)
        /\ err' = "none"
        /\ op' = [name |-> "add_collection", c |-> c, primary |-> primary]
        /\ UNCHANGED <<metadata, relations, bitstreams, bundles,
                     objects, permissions, bit_primary, image, reduced, files>>

AddRelation ==
    \E relation_type \in RelationTypes, identifier \in Identifiers :
        /\ LET r == add_relation(metadata, relations, relation_type, identifier)
           IN  /\ relations' = r.relations
               /\ err' = r.err
        /\ op' = [name |-> "add_relation", relation_type |-> relation_type,
                  identifier |-> identifier]
        /\ UNCHANGED <<metadata, collections, bitstreams, bundles,
                     objects, permissions, bit_primary, image, reduced, files>>

EnableEntity ==
    \E entity_type \in Values :
        /\ LET r == enable_entity(metadata, entity_type)
           IN  /\ metadata' = r.metadata
               /\ err' = r.err
        /\ op' = [name |-> "enable_entity", entity_type |-> entity_type]
        /\ UNCHANGED Others

NextItem ==
    \/ AddEntityType
    \/ RemoveEntityType
    \/ AddCollection
    \/ AddRelation
    \/ EnableEntity

SpecItem == InitItem /\ [][NextItem]_vars

----------------------------------------------------------------------------
(* Bitstream and Bundle actions *)

\* Bitstream(name, path, bundle, uuid): objects are created in the order b1, b2
NewBitstream ==
    \E b \in BitIds \ DOMAIN bitstreams :
      \E name \in FileNames, path \in Paths,
         bundle \in BundleIds \cup {NoneVal}, uuid \in Uuids \cup {NoneVal} :
        /\ b = BitOrder[Cardinality(DOMAIN bitstreams) + 1]
        /\ bitstreams' = [x \in (DOMAIN bitstreams) \cup {b} |->
                            IF x = b THEN Bitstream_init(name, path, bundle, uuid)
                                     ELSE bitstreams[x]]
        /\ err' = "none"
        /\ op' = [name |-> "Bitstream", bitstream |-> b]
        /\ UNCHANGED <<metadata, collections, relations, bundles,
                     objects, permissions, bit_primary, image, reduced, files>>

AddBitstream ==
    \E bundle \in BundleIds, b \in DOMAIN bitstreams :
        /\ Len(bundles[bundle]) < MaxBits
        /\ LET r == add_bitstream(bitstreams, bundles, bundle, b)
           IN  /\ bitstreams' = r.bitstreams
               /\ bundles' = r.bundles
        /\ err' = "none"
        /\ op' = [name |-> "add_bitstream", bundle |-> bundle, bitstream |-> b]
        /\ UNCHANGED <<metadata, collections, relations,
                     objects, permissions, bit_primary, image, reduced, files>>

RemoveBitstream ==
    \E bundle \in BundleIds, b \in DOMAIN bitstreams :
        /\ LET r == remove_bitstream(bitstreams, bundles, bundle, b)
           IN  /\ bundles' = r.bundles
               /\ err' = r.err
        /\ op' = [name |-> "remove_bitstream", bundle |-> bundle, bitstream |-> b]
        /\ UNCHANGED <<metadata, collections, relations, bitstreams,
                     objects, permissions, bit_primary, image, reduced, files>>

NextBundle == NewBitstream \/ AddBitstream \/ RemoveBitstream

SpecBundle == InitBundle /\ [][NextBundle]_vars

----------------------------------------------------------------------------
(* Comparing two DSpaceObjects *)

\* a = DSpaceObject(uuid, handle) and b = DSpaceObject(uuid, handle)
InitEq ==
    /\ metadata = EmptyMetaData
    /\ collections = <<>>
    /\ relations = [isSet |-> FALSE, val |-> <<>>]
    /\ bitstreams = <<>>
    /\ bundles = <<>>
    /\ op = [name |-> "DSpaceObject"]
    /\ err = "none"
    /\ \E ua \in ObjectUuids, ha \in ObjectHandles,
          ub \in ObjectUuids, hb \in ObjectHandles :
          objects = [a |-> DSpaceObject_init(ua, ha), b |-> DSpaceObject_init(ub, hb)]
    /\ permissions = <<>>
    /\ bit_primary = FALSE
    /\ image = [width |-> 0, height |-> 0]
    /\ reduced = <<>>
    /\ files = <<>>

\* x == y
Eq ==
    \E x \in {"a", "b"}, y \in {"a", "b"} :
        /\ LET r == DSpaceObject_eq(objects[x], objects[y])
           IN  /\ err' = r.err
               /\ op' = [name |-> "__eq__", self |-> x, other |-> y,
                         result |-> r.result]
        /\ UNCHANGED <<metadata, collections, relations, bitstreams, bundles,
                       objects, permissions, bit_primary, image, reduced, files>>

NextEq == Eq

SpecEq == InitEq /\ [][NextEq]_vars

----------------------------------------------------------------------------
(* One Bitstream, its description, permissions and description line *)

\* b1 = Bitstream(name, '', bundle, primary=primary)
InitStr ==
    /\ collections = <<>>
    /\ relations = [isSet |-> FALSE, val |-> <<>>]
    /\ \E name \in FileNames, bundle \in BundleIds \cup {NoneVal}, prim \in BOOLEAN :
          /\ bitstreams = [b \in {"b1"} |-> Bitstream_init(name, <<>>, bundle, NoneVal)]
          /\ metadata = Bitstream_init_metadata(name)
          /\ bit_primary = prim
    /\ bundles = [bundle \in BundleIds |-> <<>>]
    /\ op = [name |-> "Bitstream", bitstream |-> "b1"]
    /\ err = "none"
    /\ objects = <<>>
    /\ permissions = <<>>
    /\ image = [width |-> 0, height |-> 0]
    /\ reduced = <<>>
    /\ files = <<>>

StrFrame == <<collections, relations, bitstreams, bundles, objects, bit_primary,
              image, reduced, files>>

AddDescription ==
    \E description \in Values, language \in Languages :
        /\ NumValues(metadata) < MaxValues
        /\ LET r == add_description(metadata, description, language)
           IN  /\ metadata' = r.metadata
               /\ err' = r.err
        /\ op' = [name |-> "add_description", description |-> description]
        /\ UNCHANGED <<StrFrame, permissions>>

RemoveDescription ==
    \E value \in Values \cup {NoneVal} :
        /\ LET r == remove_metadata(metadata, DESCRIPTION_TAG, value)
           IN  /\ metadata' = r.metadata
               /\ err' = r.err
        /\ op' = [name |-> "remove_metadata", tag |-> DESCRIPTION_TAG, value |-> value]
        /\ UNCHANGED <<StrFrame, permissions>>

AddPermission ==
    \E rw \in PermissionTypes, group_name \in Groups :
        /\ Len(permissions) < MaxPermissions
        /\ LET r == add_permission(permissions, rw, group_name)
           IN  /\ permissions' = r.permissions
               /\ err' = r.err
        /\ op' = [name |-> "add_permission", rw |-> rw, group_name |-> group_name]
        /\ UNCHANGED <<StrFrame, metadata>>

\* str(b1)
Str ==
    /\ op' = [name |-> "__str__",
              result |-> Bitstream_str(bitstreams["b1"], metadata, permissions,
                                       bit_primary)]
    /\ err' = "none"
    /\ UNCHANGED <<StrFrame, metadata, permissions>>

NextStr == AddDescription \/ RemoveDescription \/ AddPermission \/ Str

SpecStr == InitStr /\ [][NextStr]_vars

----------------------------------------------------------------------------
(* One IIIFBitstream over an image file *)

\* b1 = IIIFBitstream(name, '', bundle, primary=primary), its file an image
InitIIIF ==
    /\ collections = <<>>
    /\ relations = [isSet |-> FALSE, val |-> <<>>]
    /\ \E name \in FileNames, bundle \in BundleIds \cup {NoneVal}, prim \in BOOLEAN :
          /\ bitstreams = [b \in {"b1"} |-> IIIFBitstream_init(name, <<>>, bundle, NoneVal)]
          /\ metadata = Bitstream_init_metadata(name)
          /\ bit_primary = prim
    /\ bundles = [bundle \in BundleIds |-> <<>>]
    /\ op = [name |-> "IIIFBitstream", bitstream |-> "b1"]
    /\ err = "none"
    /\ objects = <<>>
    /\ permissions = <<>>
    /\ image \in ImageSizes
    /\ reduced = <<>>
    /\ files = <<>>

IIIFFrame == <<collections, relations, bitstreams, bundles, objects, permissions,
               bit_primary, image, files>>

\* b1.add_iiif(label, toc, w)
AddIIIF ==
    \E label \in Labels, toc \in Tocs, w \in Widths :
        LET r == add_iiif(metadata, image, label, toc, w)
        IN  /\ IF r.err = "none"
               THEN Len(get_metadata(metadata, "iiif.label")) < MaxIIIFCalls
               ELSE Len(reduced) < MaxIIIFCalls
            /\ metadata' = r.metadata
            /\ reduced' = reduced \o r.reduce
            /\ err' = r.err
            /\ op' = [name |-> "add_iiif", label |-> label, toc |-> toc, w |-> w]
            /\ UNCHANGED IIIFFrame

\* str(b1)
StrIIIF ==
    LET r == IIIFBitstream_str(bitstreams["b1"], metadata, permissions, bit_primary)
    IN  /\ op' = [name |-> "__str__", result |-> r.result, warned |-> r.warned]
        /\ err' = r.err
        /\ UNCHANGED <<IIIFFrame, metadata, reduced>>

\* IIIFBitstream(content_type, name, path, ...) of IIIFBitstream.py
NewLegacyIIIF ==
    \E content_type \in ContentTypes :
        /\ op' = [name |-> "IIIFBitstream.py:__init__", content_type |-> content_type]
        /\ err' = IIIFBitstream_legacy_init(content_type)
        /\ UNCHANGED <<IIIFFrame, metadata, reduced>>

NextIIIF == AddIIIF \/ StrIIIF \/ NewLegacyIIIF

SpecIIIF == InitIIIF /\ [][NextIIIF]_vars

----------------------------------------------------------------------------
(* Bitstreams saved into one directory *)

\* two bitstreams and an empty destination directory
InitSave ==
    /\ metadata = EmptyMetaData
    /\ collections = <<>>
    /\ relations = [isSet |-> FALSE, val |-> <<>>]
    /\ \E n1 \in FileNames, n2 \in FileNames, p \in Paths :
          bitstreams = [b \in BitIds |->
                          Bitstream_init(IF b = BitOrder[1] THEN n1 ELSE n2, p,
                                         NoneVal, NoneVal)]
    /\ bundles = [bundle \in BundleIds |-> <<>>]
    /\ op = [name |-> "Bitstream"]
    /\ err = "none"
    /\ objects = <<>>
    /\ permissions = <<>>
    /\ bit_primary = FALSE
    /\ image = [width |-> 0, height |-> 0]
    /\ reduced = <<>>
    /\ files = EmptyDir

\* b.save_bitstream(dir), the source answering with `fetch`
SaveBitstream ==
    \E b \in DOMAIN bitstreams, fetch \in FetchOutcomes :
        LET r == save_bitstream(bitstreams[b], files, fetch)
        IN  /\ files' = r.files
            /\ err' = r.err
            /\ op' = [name |-> "save_bitstream", bitstream |-> b, fetch |-> fetch]
            /\ UNCHANGED <<metadata, collections, relations, bitstreams, bundles,
                           objects, permissions, bit_primary, image, reduced>>

NextSave == SaveBitstream

SpecSave == InitSave /\ [][NextSave]_vars

----------------------------------------------------------------------------
(* Claims about the metadata operations, checked under SpecMeta *)

\* s without its i-th element (1-based)
RemoveAt(s, i) == SubSeq(s, 1, i - 1) \o SubSeq(s, i + 1, Len(s))

\* C1: after any sequence of add_metadata, remove_metadata, replace_metadata
\* and move_metadata calls, every field identifier present in the store
\* (has_metadata(tag)) has at least one value.
C1_PresentFieldHasValue ==
    \A tag \in Tags :
        has_metadata(metadata, tag) => Len(get_metadata(metadata, tag)) >= 1

\* C2: on a field of n >= 1 values, move_metadata(tag, fromIndex, toIndex) with
\* 0 <= fromIndex < n and 0 <= toIndex < n succeeds, keeps the length, puts the
\* moved value at index toIndex and leaves the other values in their relative
\* order (so nothing is lost or duplicated); no other field changes.
C2_MoveKeepsValues ==
    [][ op'.name = "move_metadata" =>
          LET old == get_metadata(metadata, op'.tag)
              new == get_metadata(metadata', op'.tag)
              n == Len(old)
              f == op'.from_position
              t == op'.to_position
          IN  (n >= 1 /\ f \in 0..(n - 1) /\ t \in 0..(n - 1)) =>
                /\ err' = "none"
                /\ Len(new) = n
                /\ new[t + 1] = old[f + 1]
                /\ RemoveAt(new, t + 1) = RemoveAt(old, f + 1)
                /\ DOMAIN metadata' = DOMAIN metadata
                /\ \A other \in (DOMAIN metadata) \ {op'.tag} :
                       metadata'[other] = metadata[other]
      ]_vars

\* a move between two different non-negative positions of a three-valued field
\* holding both values has succeeded
C2_Witness ==
    /\ op.name = "move_metadata"
    /\ err = "none"
    /\ op.from_position >= 0
    /\ op.to_position >= 0
    /\ op.from_position # op.to_position
    /\ Len(get_metadata(metadata, op.tag)) = 3
    /\ \E i, j \in 1..3 : metadata[op.tag][i] # metadata[op.tag][j]

\* C3: on a field of n >= 2 values, move_metadata(tag, fromIndex, -1) with a
\* valid fromIndex makes the moved value the last element, the other n-1
\* values preceding it in their original relative order.
C3_MoveToMinusOneAppends ==
    [][ op'.name = "move_metadata" =>
          LET old == get_metadata(metadata, op'.tag)
              new == get_metadata(metadata', op'.tag)
              n == Len(old)
              f == op'.from_position
          IN  (n >= 2 /\ f \in 0..(n - 1) /\ op'.to_position = -1) =>
                /\ err' = "none"
                /\ Len(new) = n
                /\ new[n] = old[f + 1]
                /\ SubSeq(new, 1, n - 1) = RemoveAt(old, f + 1)
      ]_vars

\* C4: move_metadata on a field of length n raises KeyError when the field is
\* absent or empty or fromIndex >= n, and for a valid fromIndex raises
\* IndexError exactly when toIndex >= n or toIndex <= -(n+1); toIndex = -n
\* with a valid fromIndex does not fail.
C4_MoveErrors ==
    [][ op'.name = "move_metadata" =>
          LET n == Len(get_metadata(metadata, op'.tag))
              f == op'.from_position
              t == op'.to_position
          IN  /\ (n = 0 \/ f >= n) => err' = "KeyError"
              /\ (f \in 0..(n - 1)) =>
                    /\ (err' = "IndexError") <=> (t >= n \/ t <= -(n + 1))
                    /\ (t = -n) => err' = "none"
      ]_vars

\* C5: whatever the store held (field absent or holding any number of values),
\* replace_metadata(tag, value, language) succeeds and leaves the field with
\* exactly one value: get_metadata_values(tag) is [value].
C5_ReplaceAlwaysCollapses ==
    op.name = "replace_metadata" =>
        /\ err = "none"
        /\ ~get_metadata_values(metadata, op.tag).isNone
        /\ get_metadata_values(metadata, op.tag).val = <<op.value>>

----------------------------------------------------------------------------
(* Claims about Bundle and Bitstream, checked under SpecBundle *)

\* bitstream b is listed in bundle B
InBundle(b, bundle) == \E i \in 1..Len(bundles[bundle]) : bundles[bundle][i] = b

\* C6: after any sequence of Bitstream constructions, add_bitstream and
\* remove_bitstream calls, a bitstream's bundle back-reference names bundle B
\* if and only if the bitstream is in B.bitstreams.
C6_BackReferenceMatchesMembership ==
    \A b \in DOMAIN bitstreams : \A bundle \in BundleIds :
        (bitstreams[b].bundle = bundle) <=> InBundle(b, bundle)

\* bitstream equality as the data model states it: same file_name and path,
\* and the same uuid when both sides define one
SameFile(a, b) ==
    /\ a.file_name = b.file_name
    /\ a.path = b.path
    /\ (a.uuid # NoneVal /\ b.uuid # NoneVal) => a.uuid = b.uuid

----------------------------------------------------------------------------
(* Claims about Item, checked under SpecItem *)

\* dspace.entity.type holds a value that is not the empty string
EntityTypeNonEmpty(m) ==
    \E i \in 1..Len(get_metadata(m, ENTITY_TAG)) :
        get_metadata(m, ENTITY_TAG)[i].value # ""

\* C8: add_relation(type, id) raises the not-an-entity error (TypeError) and
\* leaves relations unchanged when dspace.entity.type is absent or empty; when
\* the field is present and non-empty it succeeds and appends
\* Relation(type, id) as the last element of relations.
C8_AddRelationNeedsEntity ==
    [][ op'.name = "add_relation" =>
          /\ ~EntityTypeNonEmpty(metadata) =>
                /\ err' = "TypeError"
                /\ relations' = relations
          /\ EntityTypeNonEmpty(metadata) =>
                /\ err' = "none"
                /\ relations'.isSet
                /\ Len(relations'.val) = Len(relations.val) + 1
                /\ relations'.val[Len(relations'.val)]
                     = Relation(op'.relation_type, op'.identifier)
                /\ SubSeq(relations'.val, 1, Len(relations.val)) = relations.val
      ]_vars

C10_EnableEntityReplaces ==
    [][ op'.name = "enable_entity" =>
          /\ err' = "none"
          /\ ~get_metadata_values(metadata', ENTITY_TAG).isNone
          /\ get_metadata_values(metadata', ENTITY_TAG).val = <<op'.entity_type>>
          /\ is_entity(metadata').err = "none"
          /\ is_entity(metadata').result
          /\ (op.name = "enable_entity" /\ op.entity_type = op'.entity_type)
                => metadata' = metadata
      ]_vars

----------------------------------------------------------------------------
(* Claims about DSpaceObject equality, checked under SpecEq *)

\* the object has a non-empty uuid or a non-empty handle
HasIdentity(o) == o.uuid # "" \/ o.handle # ""

\* C11: a == b returns a boolean only when both a and b have a non-empty uuid
\* or a non-empty handle; when either side has neither, the comparison raises
\* the incomparable-entities error (ValueError).
C11_EqNeedsIdentityOnBothSides ==
    op.name = "__eq__" =>
        IF HasIdentity(objects[op.self]) /\ HasIdentity(objects[op.other])
        THEN err = "none"
        ELSE err = "ValueError"

\* C16: equality is symmetric: when a == b and b == a both return a value,
\* they return the same value.
C16_EqSymmetric ==
    [][ ( /\ op.name = "__eq__" /\ op'.name = "__eq__"
          /\ op'.self = op.other /\ op'.other = op.self
          /\ err = "none" /\ err' = "none" )
        => op'.result = op.result
      ]_vars

----------------------------------------------------------------------------
(* Claims about the description line, checked under SpecStr *)

\* the fields joined by tabs
RECURSIVE JoinTab(_)
JoinTab(fields) ==
    IF Len(fields) = 1 THEN fields[1]
    ELSE fields[1] \o "\t" \o JoinTab(Tail(fields))

\* the fields the line is to hold, in order
ExpectedFields ==
    <<bitstreams["b1"].file_name>>
    \o (IF bitstreams["b1"].bundle # NoneVal
        THEN <<"bundle:" \o bitstreams["b1"].bundle>> ELSE <<>>)
    \o (IF Len(get_metadata(metadata, DESCRIPTION_TAG)) > 0
        THEN <<"description:" \o get_metadata(metadata, DESCRIPTION_TAG)[1].value>>
        ELSE <<>>)
    \o [i \in 1..Len(permissions) |->
           "permissions:-" \o permissions[i].type \o " '" \o permissions[i].group \o "'"]
    \o (IF bit_primary THEN <<"primary:true">> ELSE <<>>)

\* C12: Bitstream.__str__ is the tab-separated line of: file name, bundle:<name>
\* if a bundle is set, description:<text> if a dc.description value exists, one
\* permissions:-<kind> '<group>' entry per add_permission call in insertion
\* order, primary:true if the primary flag is set. For bundle ORIGINAL, file
\* scan.jpg, primary, one permission (r, Anonymous) and no description it is
\* exactly the line of the scenario.
C12_DescriptionLine ==
    [][ /\ op'.name = "add_permission" =>
              IF op'.rw \in {"r", "w"}
              THEN /\ err' = "none"
                   /\ permissions' = Append(permissions,
                                        [type |-> op'.rw, group |-> op'.group_name])
              ELSE permissions' = permissions
        /\ op'.name = "__str__" =>
              /\ err' = "none"
              /\ op'.result = JoinTab(ExpectedFields)
              /\ ( /\ bitstreams["b1"].file_name = "scan.jpg"
                   /\ bitstreams["b1"].bundle = "ORIGINAL"
                   /\ bit_primary
                   /\ permissions = <<[type |-> "r", group |-> "Anonymous"]>>
                   /\ Len(get_metadata(metadata, DESCRIPTION_TAG)) = 0 )
                 => op'.result
                      = "scan.jpg\tbundle:ORIGINAL\tpermissions:-r 'Anonymous'\tprimary:true"
      ]_vars

\* the line of the scenario has been produced
C12_Witness ==
    /\ op.name = "__str__"
    /\ op.result = "scan.jpg\tbundle:ORIGINAL\tpermissions:-r 'Anonymous'\tprimary:true"
    /\ permissions = <<[type |-> "r", group |-> "Anonymous"]>>
    /\ bit_primary

----------------------------------------------------------------------------
(* Claims about IIIFBitstream, checked under SpecIIIF *)

\* the last value of a field, "" when it has none
LastValue(m, tag) ==
    LET vs == get_metadata(m, tag)
    IN  IF Len(vs) = 0 THEN "" ELSE vs[Len(vs)].value

\* add_iiif has recorded IIIF information at some point
IIIFRecorded == Len(get_metadata(metadata, "iiif.label")) > 0

\* C13: add_iiif(label, toc, w) completes for every w and records label, toc,
\* natural width and natural height as metadata; no downscale is requested when
\* w = 0 or w >= natural width, and when 0 < w < natural width the factor
\* requested is floor(width / w) while the recorded size is the natural one.
C13_AddIIIFAlwaysRecords ==
    [][ op'.name = "add_iiif" =>
          /\ err' = "none"
          /\ Len(get_metadata(metadata', "iiif.label"))
               = Len(get_metadata(metadata, "iiif.label")) + 1
          /\ LastValue(metadata', "iiif.label") = op'.label
          /\ LastValue(metadata', "iiif.toc") = op'.toc
          /\ LastValue(metadata', "iiif.image.width") = ToString(image.width)
          /\ LastValue(metadata', "iiif.image.height") = ToString(image.height)
          /\ IF op'.w = 0 \/ op'.w >= image.width
             THEN reduced' = reduced
             ELSE reduced' = Append(reduced, image.width \div op'.w)
      ]_vars

\* C14: IIIFBitstream.__str__ returns the base Bitstream line, extended with
\* iiif-label, iiif-toc, iiif-width, iiif-height in that order when add_iiif
\* has recorded them; when add_iiif was never called it still returns the base
\* line and emits a warning instead of failing.
C14_StrExtendsBaseLine ==
    op.name = "__str__" =>
        /\ err = "none"
        /\ IF IIIFRecorded
           THEN op.result =
                  Bitstream_str(bitstreams["b1"], metadata, permissions, bit_primary)
                  \o "\tiiif-label:" \o get_metadata(metadata, "iiif.label")[1].value
                  \o "\tiiif-toc:" \o get_metadata(metadata, "iiif.toc")[1].value
                  \o "\tiiif-width:"
                  \o get_metadata(metadata, "iiif.image.width")[1].value
                  \o "\tiiif-height:"
                  \o get_metadata(metadata, "iiif.image.height")[1].value
           ELSE /\ op.result =
                     Bitstream_str(bitstreams["b1"], metadata, permissions, bit_primary)
                /\ op.warned

----------------------------------------------------------------------------
(* Claims about save_bitstream, checked under SpecSave *)

\* the file name of the bitstream an operation was called on
SavedName(o) == bitstreams[o.bitstream].file_name

\* C15: save_bitstream(dir) checks for the file before it fetches or writes: a
\* file named file_name in dir makes it fail with FileExistsError and leaves
\* the directory as it was, so of two saves of the same file name in a row the
\* first succeeds and the second fails; a fetch that fails after the check
\* leaves no file in dir.
C15_CheckThenWrite ==
    [][ op'.name = "save_bitstream" =>
          /\ IF SavedName(op') \in DOMAIN files
             THEN /\ err' = "FileExistsError"
                  /\ files' = files
             ELSE IF op'.fetch.err # "none"
                  THEN /\ err' = op'.fetch.err
                       /\ files' = files
                       /\ SavedName(op') \notin DOMAIN files'
                  ELSE /\ err' = "none"
                       /\ DOMAIN files' = (DOMAIN files) \cup {SavedName(op')}
                       /\ files'[SavedName(op')] = op'.fetch.content
                       /\ \A f \in DOMAIN files : files'[f] = files[f]
          /\ ( /\ op.name = "save_bitstream"
               /\ err = "none"
               /\ SavedName(op) = SavedName(op') )
             => err' = "FileExistsError"
      ]_vars

\* a second save of a file name finds the file of the first, whose contents
\* differ from what the source now gives, and fails
C15_Witness ==
    /\ op.name = "save_bitstream"
    /\ err = "FileExistsError"
    /\ op.fetch.err = "none"
    /\ SavedName(op) \in DOMAIN files
    /\ files[SavedName(op)] # op.fetch.content

\* a fetch has failed after the check, and the directory holds no such file
C15_WitnessFetchFails ==
    /\ op.name = "save_bitstream"
    /\ err = "FileNotFoundError"
    /\ SavedName(op) \notin DOMAIN files
    /\ files # EmptyDir

====
